---- MODULE Spec2Model ----
(***************************************************************************)
(* A model of PeakMatching.py: PTM-to-global peak matching (ptm_eval,      *)
(* ptm_matching), the greedy condition alignment (peak_alignment with      *)
(* path_score and fill_values), the per-group driver matching_i and the    *)
(* fan-in of main.                                                         *)
(*                                                                         *)
(* Data frames are sequences of records, numpy arrays are sequences of     *)
(* rows.  Row positions are 1-based here; the values of the 'index' column *)
(* and of top_combination_index keep Python's 0-based numbering.           *)
(***************************************************************************)
EXTENDS Integers, Sequences, FiniteSets

VARIABLES
  pc,                  \* position in the program
  threshold,           \* global threshold (the --cutoff option)
  ptms,                \* global ptms: every ptm label of the peak table
  conditions,          \* global conditions: every condition label of the table
  input_df,            \* ptm_matching: the group table
  global_df,           \* ptm_matching: the rows with ptm == 'global'
  ptm_df_list,         \* ptm_matching: one frame per channel, sorted by name
  ptm_i,               \* ptm_matching: the loop variable i
  global_ptm_merge_i,  \* ptm_matching: the merged frame of the last iteration
  final_global_df,     \* ptm_matching: [bound, rows]
  peak_df,             \* peak_alignment: the peak table, with its 'index' column
  index_combinations,  \* peak_alignment: the candidate index pool
  peak_combinations,   \* peak_alignment: the apex-value pool
  result_paths,        \* peak_alignment: the accepted paths
  align_i,             \* peak_alignment: iterations of the for loop done so far
  align_n,             \* peak_alignment: len(peak_combinations) at loop entry
  output_df,           \* condition_matching: the aligned tracks
  match_df_list,       \* main: the group tables
  mapped_result,       \* main: the results of matching_i so far
  clustered_table      \* main: the concatenated result

vars == <<pc, threshold, ptms, conditions, input_df, global_df, ptm_df_list,
          ptm_i, global_ptm_merge_i, final_global_df, peak_df,
          index_combinations, peak_combinations, result_paths, align_i,
          align_n, output_df, match_df_list, mapped_result, clustered_table>>

globalVars == <<threshold, ptms, conditions>>
ptmVars == <<input_df, global_df, ptm_df_list, ptm_i, global_ptm_merge_i,
             final_global_df>>
alignVars == <<peak_df, index_combinations, peak_combinations, result_paths,
               align_i, align_n>>
mainVars == <<match_df_list, mapped_result, clustered_table>>

----------------------------------------------------------------------------
(* Bounds of the model. *)

\* largest cutoff tried (the option is an integer; the spec has it >= 0)
MaxCutoff == 2
\* largest position of an apex or boundary in the ptm_eval check
MaxPos == 3
\* most global rows of a group table in the ptm_matching check
MaxGlobal == 2
\* most PTM-channel rows of a group table in the ptm_matching check
MaxPtmRows == 2
\* most peaks of a group in the peak_alignment check
MaxPeaks == 4
\* most groups of a run of main
MaxGroups == 2

\* np.nan, and None/NULL in a numeric column: a value outside every domain
NaN == -1

Cutoffs == 0..MaxCutoff

\* condition labels in sorted order (groupby sorts its keys)
CondOrder == <<"A", "B">>
\* non-global ptm labels in sorted order
PtmOrder == <<"acetyl", "phospho">>

Range(s) == {s[k] : k \in DOMAIN s}

Abs(x) == IF x < 0 THEN -x ELSE x

\* every sequence over S of length lo..hi
SeqsOf(S, lo, hi) == UNION {[1..n -> S] : n \in lo..hi}

\* concatenation of a sequence of sequences
RECURSIVE Flatten(_)
Flatten(ss) == IF ss = <<>> THEN <<>> ELSE Head(ss) \o Flatten(Tail(ss))

\* the members of order (a sequence) that are in S, in order
SortedSeq(order, S) == SelectSeq(order, LAMBDA x : x \in S)

----------------------------------------------------------------------------
(* ptm_eval, lines 88-111.  A comparison with NaN is False, and            *)
(* abs(x - NaN) is NaN.                                                    *)

Lt(a, b) == a # NaN /\ b # NaN /\ a < b

\* the apex test with <= for <
apex_condition_nonstrict(row, apex_diff_cutoff) ==
  /\ row.peak_apex # NaN
  /\ row.peak_apex_ptm # NaN
  /\ Abs(row.peak_apex - row.peak_apex_ptm) <= apex_diff_cutoff

\* lines 103-104
apex_condition(row, apex_diff_cutoff) ==
  /\ row.peak_apex # NaN
  /\ row.peak_apex_ptm # NaN
  /\ Abs(row.peak_apex - row.peak_apex_ptm) < apex_diff_cutoff

\* line 107
overlap_condition(row) ==
  ~ (Lt(row.peak_right, row.peak_left_ptm) \/ Lt(row.peak_right_ptm, row.peak_left))

\* line 110: (apex_condition * overlap_condition).astype(int)
ptm_eval(row, apex_diff_cutoff) ==
  IF apex_condition(row, apex_diff_cutoff) /\ overlap_condition(row) THEN 1 ELSE 0

----------------------------------------------------------------------------
(* ptm_matching, lines 129-198.  A row of the group table is               *)
(* [condition, ptm, peak_id, peak_apex, peak_left, peak_right]; the group  *)
(* columns are the same in every row of a group and are left out.  The     *)
(* cluster column, which the loop only rewrites as a string, is left out   *)
(* too.  A joined id string 'a;b' is kept as the sequence <<"a", "b">>,    *)
(* the empty string as <<>>.                                               *)

\* the distinct values of a sequence, in order of first appearance
DistinctInOrder(vals) ==
  LET F[k \in 0..Len(vals)] ==
        IF k = 0 THEN <<>>
        ELSE IF vals[k] \in Range(F[k - 1]) THEN F[k - 1] ELSE Append(F[k - 1], vals[k])
  IN  F[Len(vals)]

\* lines 143-144, with ptm=p assigned (line 160): a row of missing values
\* for each distinct condition of the group
skeleton_df(df, p) ==
  LET cs == DistinctInOrder([r \in 1..Len(df) |-> df[r].condition])
  IN  [k \in 1..Len(cs) |->
         [condition |-> cs[k], ptm |-> p, peak_id |-> "nan",
          peak_apex |-> NaN, peak_left |-> NaN, peak_right |-> NaN]]

\* line 147
global_rows(df) == SelectSeq(df, LAMBDA r : r.ptm = "global")

\* line 153
ptm_rows(df) == SelectSeq(df, LAMBDA r : r.ptm # "global")

PtmsOf(df) == {df[r].ptm : r \in 1..Len(df)}

\* lines 156-160: placeholder rows for every known channel the group lacks
RECURSIVE add_missing_ptms(_, _, _)
add_missing_ptms(ptm_df, df, todo) ==
  IF todo = <<>> THEN ptm_df
  ELSE LET p == Head(todo)
       IN  IF p \notin PtmsOf(ptm_df) /\ p # "global"
           THEN add_missing_ptms(ptm_df \o skeleton_df(df, p), df, Tail(todo))
           ELSE add_missing_ptms(ptm_df, df, Tail(todo))

\* line 163: one frame per ptm label, in sorted label order
group_by_ptm(ptm_df) ==
  LET labels == SortedSeq(PtmOrder, PtmsOf(ptm_df))
  IN  [k \in 1..Len(labels) |->
         [ptm |-> labels[k],
          rows |-> SelectSeq(ptm_df, LAMBDA r : r.ptm = labels[k])]]

\* lines 153-163
make_ptm_df_list(df, known) ==
  group_by_ptm(add_missing_ptms(ptm_rows(df), df, SortedSeq(PtmOrder, known)))

MergedRow(g, p) ==
  [condition |-> g.condition, peak_id |-> g.peak_id, peak_apex |-> g.peak_apex,
   peak_left |-> g.peak_left, peak_right |-> g.peak_right,
   peak_id_ptm |-> p.peak_id, peak_apex_ptm |-> p.peak_apex,
   peak_left_ptm |-> p.peak_left, peak_right_ptm |-> p.peak_right]

NoPartner ==
  [peak_id |-> "nan", peak_apex |-> NaN, peak_left |-> NaN, peak_right |-> NaN]

\* line 171: left merge on the group columns and the condition
merge_left(gdf, pdf) ==
  Flatten([k \in 1..Len(gdf) |->
    LET ms == SelectSeq(pdf, LAMBDA r : r.condition = gdf[k].condition)
    IN  IF ms = <<>> THEN <<MergedRow(gdf[k], NoPartner)>>
        ELSE [q \in 1..Len(ms) |-> MergedRow(gdf[k], ms[q])]])

\* line 174: the merged frame with its match column
with_match(merged, t) ==
  [r \in 1..Len(merged) |->
     [condition |-> merged[r].condition, peak_id |-> merged[r].peak_id,
      peak_apex |-> merged[r].peak_apex, peak_left |-> merged[r].peak_left,
      peak_right |-> merged[r].peak_right, peak_id_ptm |-> merged[r].peak_id_ptm,
      peak_apex_ptm |-> merged[r].peak_apex_ptm,
      peak_left_ptm |-> merged[r].peak_left_ptm,
      peak_right_ptm |-> merged[r].peak_right_ptm,
      match |-> ptm_eval(merged[r], t)]]

RECURSIVE SumMatch(_)
SumMatch(rows) == IF rows = <<>> THEN 0 ELSE Head(rows).match + SumMatch(Tail(rows))

\* lines 179/190: groupby(group_cols + ['peak_apex', 'condition']), the group
\* of the merged frame that global row g falls in
summary_group(merged, g) ==
  SelectSeq(merged, LAMBDA r : r.peak_apex = g.peak_apex /\ r.condition = g.condition)

\* lines 178-179 and 189-190: the match count and the joined matched ids
\* of the summary row that line 182/193 merges onto global row g
summary_count(merged, g) == SumMatch(summary_group(merged, g))

\* ';'.join(filter(None, x)), the ids kept as a sequence
join_ids(ids) == ids

summary_ids(merged, g) ==
  LET hit == SelectSeq(summary_group(merged, g), LAMBDA r : r.match = 1)
  IN  join_ids([k \in 1..Len(hit) |-> hit[k].peak_id_ptm])

\* lines 171-197: the body of the loop for one channel frame; the result is
\* global_df with that channel's two columns
ptm_channel(gdf, frame, t) ==
  LET merged == with_match(merge_left(gdf, frame.rows), t)
  IN  [k \in 1..Len(gdf) |->
         [condition |-> gdf[k].condition, peak_id |-> gdf[k].peak_id,
          peak_apex |-> gdf[k].peak_apex, peak_left |-> gdf[k].peak_left,
          peak_right |-> gdf[k].peak_right,
          counts |-> [c \in {frame.ptm} |-> summary_count(merged, gdf[k])],
          peak_id_ptm |-> summary_ids(merged, gdf[k])]]

\* the loop of line 165 from frame i on
RECURSIVE ptm_loop(_, _, _, _, _)
ptm_loop(gdf, frames, t, i, final) ==
  IF i > Len(frames) THEN final
  ELSE ptm_loop(gdf, frames, t, i + 1,
                [bound |-> TRUE, rows |-> ptm_channel(gdf, frames[i], t)])

\* ptm_matching as a whole: [status, rows]
ptm_matching(df, known, t) ==
  IF Len(global_rows(df)) = 0 THEN [status |-> "None", rows |-> <<>>]
  ELSE LET final == ptm_loop(global_rows(df), make_ptm_df_list(df, known), t, 1,
                             [bound |-> FALSE, rows |-> <<>>])
       IN  IF final.bound THEN [status |-> "ok", rows |-> final.rows]
           ELSE [status |-> "UnboundLocalError", rows |-> <<>>]

----------------------------------------------------------------------------
(* path_mean_dist and path_score, lines 202-231.                            *)
(*                                                                          *)
(* With k slots present, sum x and sum x^2 over them and m = n - k missing  *)
(* slots, the sum of path_dist_sq is (k*sumsq - sumx^2)/k + m*threshold^2,  *)
(* path_var is that sum over n and path_score is 1/(path_var + 1).  The     *)
(* model keeps path_var times n*n!, an integer, and orders paths by it: the *)
(* score is strictly decreasing in path_var.  With at most two conditions   *)
(* and small integer apexes every float operation of the code is exact, so  *)
(* the order and the ties of the scores are those of the scaled integers.   *)

RECURSIVE Fact(_)
Fact(n) == IF n <= 1 THEN 1 ELSE n * Fact(n - 1)

RECURSIVE SumOver(_, _)
SumOver(path, k) ==
  IF k = 0 THEN 0
  ELSE SumOver(path, k - 1) + (IF path[k] = NaN THEN 0 ELSE path[k])

RECURSIVE SumSqOver(_, _)
SumSqOver(path, k) ==
  IF k = 0 THEN 0
  ELSE SumSqOver(path, k - 1) + (IF path[k] = NaN THEN 0 ELSE path[k] * path[k])

Present(path) == {j \in DOMAIN path : path[j] # NaN}

\* np.isnan(v).all(), line 300
all_nan(path) == \A j \in DOMAIN path : path[j] = NaN

\* sum of path_mean_dist(path), scaled by n! (line 214-217)
path_mean_dist(path, t) ==
  LET n == Len(path)
      k == Cardinality(Present(path))
      sumx == SumOver(path, n)
      sumsq == SumSqOver(path, n)
  IN  (IF k = 0 THEN 0 ELSE (Fact(n) \div k) * (k * sumsq - sumx * sumx))
      + Fact(n) * (n - k) * t * t

\* path_var of line 229, scaled by n * n!
path_var(path, t) == path_mean_dist(path, t)

\* path_scores.max() of line 296 as the least path_var, scanning rows 1..k
RECURSIVE min_path_var(_, _, _)
min_path_var(pool, t, k) ==
  IF k = 1 THEN path_var(pool[1], t)
  ELSE LET rest == min_path_var(pool, t, k - 1)
           here == path_var(pool[k], t)
       IN  IF here < rest THEN here ELSE rest

\* np.where(path_scores == best)[0][0]: the first row from r on with that value
RECURSIVE first_where(_, _, _, _)
first_where(pool, t, best, r) ==
  IF path_var(pool[r], t) = best THEN r ELSE first_where(pool, t, best, r + 1)

\* line 296: np.where(path_scores == path_scores.max())[0][0], 0-based
top_combination_index(pool, t) ==
  first_where(pool, t, min_path_var(pool, t, Len(pool)), 1) - 1

----------------------------------------------------------------------------
(* fill_values, lines 233-254. *)

\* the cell's replacement: the first row of fill_df whose 'index' equals it
fill_cell(cell, fill_df, fill_column) ==
  IF cell = NaN THEN cell
  ELSE LET hits == {r \in 1..Len(fill_df) : fill_df[r].index = cell}
       IN  IF hits = {} THEN cell
           ELSE fill_df[CHOOSE r \in hits : \A q \in hits : r <= q][fill_column]

fill_values(combos, fill_df, fill_column) ==
  [i \in 1..Len(combos) |->
     [j \in 1..Len(combos[i]) |-> fill_cell(combos[i][j], fill_df, fill_column)]]


----------------------------------------------------------------------------
(* peak_alignment, lines 256-308. *)

CondsOf(df) == {df[r].condition : r \in 1..Len(df)}

\* lines 273-281: one placeholder row for every known condition the group
\* lacks; skeleton_df has the rows of peak_df[group_cols].drop_duplicates(),
\* one for a group with rows and none for an empty table
add_skeleton(df, conds) ==
  LET missing == SortedSeq(CondOrder, conds \ CondsOf(df))
  IN  IF df = <<>> THEN df
      ELSE df \o [k \in 1..Len(missing) |->
                    [index |-> NaN, condition |-> missing[k], peak_apex |-> NaN]]

\* lines 284-286: the 'index' values per condition, each list ending with NaN
index_lists(df) ==
  LET cs == SortedSeq(CondOrder, CondsOf(df))
      rowsOf(c) == SelectSeq(df, LAMBDA r : r.condition = c)
  IN  [k \in 1..Len(cs) |->
         Append([q \in 1..Len(rowsOf(cs[k])) |-> rowsOf(cs[k])[q].index], NaN)]

\* line 289: np.array(np.meshgrid(*index_lists)).T.reshape(-1, n) for n <= 2:
\* the first list varies slowest, the second fastest
meshgrid(lists) ==
  IF Len(lists) = 0 THEN <<>>
  ELSE IF Len(lists) = 1 THEN [j \in 1..Len(lists[1]) |-> <<lists[1][j]>>]
  ELSE LET n1 == Len(lists[1])
           n2 == Len(lists[2])
       IN  [r \in 1..(n1 * n2) |->
              <<lists[1][((r - 1) \div n2) + 1], lists[2][((r - 1) % n2) + 1]>>]

\* the rows whose vector is row's, a missing slot counting as equal to a missing slot
rows_identical(pool, row) == {r \in 1..Len(pool) : pool[r] = row}

\* np.where(pool == row)[0]: the rows with a slot equal to row's (NaN equals nothing)
rows_sharing_slot(pool, row) ==
  {r \in 1..Len(pool) : \E j \in DOMAIN row : pool[r][j] # NaN /\ pool[r][j] = row[j]}

\* np.delete(pool, rows, axis=0)
np_delete(pool, rows) ==
  LET F[k \in 0..Len(pool)] ==
        IF k = 0 THEN <<>>
        ELSE IF k \in rows THEN F[k - 1] ELSE Append(F[k - 1], pool[k])
  IN  F[Len(pool)]

\* the deletion by whole vector
delete_identical(pool, row) == np_delete(pool, rows_identical(pool, row))

\* the deletion whose result is dropped
delete_nothing(pool, row) == pool

\* lines 305 and 306, each pool by its own row
delete_matching(pool, row) == np_delete(pool, rows_sharing_slot(pool, row))

\* the loop without its stopping test
stop_never(top_value) == FALSE

\* line 300: the stopping test
stop_test(top_value) == all_nan(top_value)

\* one iteration of the loop of line 294, on the two pools and the result list
align_iteration(ic, pk, rp, t) ==
  LET top == top_combination_index(pk, t)
      top_combination_value == pk[top + 1]
  IN  IF stop_test(top_combination_value)
      THEN [status |-> "break", ic |-> ic, pk |-> pk, rp |-> rp]
      ELSE IF top + 1 > Len(ic)
      THEN [status |-> "IndexError", ic |-> ic, pk |-> pk, rp |-> rp]
      ELSE [status |-> "next",
            ic |-> delete_matching(ic, ic[top + 1]),
            pk |-> delete_matching(pk, pk[top + 1]),
            rp |-> Append(rp, ic[top + 1])]

\* lines 273-291: the two pools at loop entry
initial_index_combinations(df, conds) == meshgrid(index_lists(add_skeleton(df, conds)))

initial_peak_combinations(df, conds) ==
  fill_values(initial_index_combinations(df, conds), add_skeleton(df, conds), "peak_apex")

\* the loop from iteration i on, n = len(peak_combinations) at entry
RECURSIVE align_loop(_, _, _, _, _, _)
align_loop(ic, pk, rp, t, i, n) ==
  IF i >= n THEN [status |-> "return", rp |-> rp]
  ELSE LET s == align_iteration(ic, pk, rp, t)
       IN  IF s.status = "break" THEN [status |-> "return", rp |-> rp]
           ELSE IF s.status = "IndexError" THEN [status |-> "IndexError", rp |-> rp]
           ELSE align_loop(s.ic, s.pk, s.rp, t, i + 1, n)

\* peak_alignment as a whole: [status, rp]
peak_alignment(df, conds, t) ==
  LET ic == initial_index_combinations(df, conds)
      pk == initial_peak_combinations(df, conds)
  IN  align_loop(ic, pk, <<>>, t, 0, Len(pk))

----------------------------------------------------------------------------
(* Values of the variables a specification does not use. *)

NoFrame == <<>>
Unbound == [bound |-> FALSE, rows |-> <<>>]

IdlePtm ==
  /\ input_df = NoFrame
  /\ global_df = NoFrame
  /\ ptm_df_list = <<>>
  /\ ptm_i = 0
  /\ global_ptm_merge_i = NoFrame
  /\ final_global_df = Unbound

IdleAlign ==
  /\ peak_df = NoFrame
  /\ index_combinations = <<>>
  /\ peak_combinations = <<>>
  /\ result_paths = <<>>
  /\ align_i = 0
  /\ align_n = 0

IdleMain ==
  /\ match_df_list = <<>>
  /\ mapped_result = <<>>
  /\ clustered_table = NoFrame

----------------------------------------------------------------------------
(* ptm_eval on one merged pair: the global side is a peak, the channel     *)
(* side a peak or missing (the left merge of line 171 found no partner).   *)

Positions == 0..MaxPos

EvalPeaks ==
  {p \in [apex : Positions, left : Positions, right : Positions] : p.left <= p.right}

MissingSide == [apex |-> NaN, left |-> NaN, right |-> NaN]

MergedPair(g, p) ==
  [peak_apex |-> g.apex, peak_left |-> g.left, peak_right |-> g.right,
   peak_apex_ptm |-> p.apex, peak_left_ptm |-> p.left, peak_right_ptm |-> p.right]

InitEval ==
  /\ pc = "ptm_eval"
  /\ threshold \in Cutoffs
  /\ ptms = {}
  /\ conditions = {}
  /\ \E g \in EvalPeaks, p \in EvalPeaks \cup {MissingSide} :
       global_ptm_merge_i = <<MergedPair(g, p)>>
  /\ input_df = NoFrame
  /\ global_df = NoFrame
  /\ ptm_df_list = <<>>
  /\ ptm_i = 0
  /\ final_global_df = Unbound
  /\ IdleAlign
  /\ output_df = NoFrame
  /\ IdleMain

\* line 174: the frame gets its match column
PtmEval ==
  /\ pc = "ptm_eval"
  /\ global_ptm_merge_i' =
       [r \in 1..Len(global_ptm_merge_i) |->
          [peak_apex |-> global_ptm_merge_i[r].peak_apex,
           peak_left |-> global_ptm_merge_i[r].peak_left,
           peak_right |-> global_ptm_merge_i[r].peak_right,
           peak_apex_ptm |-> global_ptm_merge_i[r].peak_apex_ptm,
           peak_left_ptm |-> global_ptm_merge_i[r].peak_left_ptm,
           peak_right_ptm |-> global_ptm_merge_i[r].peak_right_ptm,
           match |-> ptm_eval(global_ptm_merge_i[r], threshold)]]
  /\ pc' = "ptm_eval_done"
  /\ UNCHANGED <<globalVars, input_df, global_df, ptm_df_list, ptm_i,
                 final_global_df, alignVars, output_df, mainVars>>

NextEval == PtmEval

SpecEval == InitEval /\ [][NextEval]_vars

----------------------------------------------------------------------------
(* peak_alignment step by step.  The table it gets is ptm_matching's       *)
(* result after reset_index (line 355): at least one global peak, 'index'  *)
(* 0, 1, 2, ... in row order.                                              *)

AlignApexes == {1, 2, 4}

AlignRows == [condition : Range(CondOrder), peak_apex : AlignApexes]

WithIndex(rows) ==
  [r \in 1..Len(rows) |->
     [index |-> r - 1, condition |-> rows[r].condition, peak_apex |-> rows[r].peak_apex]]

InitAlign ==
  /\ pc = "peak_alignment"
  /\ threshold \in Cutoffs
  /\ ptms = {}
  /\ \E rows \in SeqsOf(AlignRows, 1, MaxPeaks) :
       /\ peak_df = WithIndex(rows)
       /\ conditions \in {c \in SUBSET Range(CondOrder) : CondsOf(rows) \subseteq c}
  /\ index_combinations = <<>>
  /\ peak_combinations = <<>>
  /\ result_paths = <<>>
  /\ align_i = 0
  /\ align_n = 0
  /\ IdlePtm
  /\ output_df = NoFrame
  /\ IdleMain

\* lines 273-291
AlignSetup ==
  /\ pc = "peak_alignment"
  /\ index_combinations' = initial_index_combinations(peak_df, conditions)
  /\ peak_combinations' = initial_peak_combinations(peak_df, conditions)
  /\ result_paths' = <<>>
  /\ align_i' = 0
  /\ align_n' = Len(initial_peak_combinations(peak_df, conditions))
  /\ pc' = "align_loop"
  /\ UNCHANGED <<globalVars, ptmVars, peak_df, output_df, mainVars>>

\* lines 294-308: one pass of the for loop, or its end
AlignStep ==
  /\ pc = "align_loop"
  /\ IF align_i >= align_n
     THEN /\ pc' = "align_returned"
          /\ UNCHANGED <<index_combinations, peak_combinations, result_paths, align_i>>
     ELSE LET s == align_iteration(index_combinations, peak_combinations,
                                   result_paths, threshold)
          IN  /\ pc' = IF s.status = "break" THEN "align_returned"
                       ELSE IF s.status = "IndexError" THEN "align_raised"
                       ELSE "align_loop"
              /\ index_combinations' = s.ic
              /\ peak_combinations' = s.pk
              /\ result_paths' = s.rp
              /\ align_i' = IF s.status = "next" THEN align_i + 1 ELSE align_i
  /\ UNCHANGED <<globalVars, ptmVars, peak_df, align_n, output_df, mainVars>>

NextAlign == AlignSetup \/ AlignStep

SpecAlign == InitAlign /\ [][NextAlign]_vars

----------------------------------------------------------------------------
(* ptm_matching step by step.  The group table lists its global rows       *)
(* first: ptm_matching filters the two kinds apart (lines 147 and 153), so *)
(* only the order within each kind reaches its result.  A PTM peak spans   *)
(* its apex alone, a global peak its apex and `width` positions each side. *)

AllPtms == {"global"} \cup Range(PtmOrder)

PtmApexes == {1, 2}

GlobalKinds == [condition : Range(CondOrder), peak_apex : PtmApexes]

PtmKinds == [ptm : Range(PtmOrder), condition : Range(CondOrder), peak_apex : PtmApexes]

GlobalIds == <<"g1", "g2", "g3", "g4", "g5", "g6">>
PtmIds == <<"p1", "p2", "p3", "p4", "p5", "p6">>

GlobalTable(gs, width) ==
  [k \in 1..Len(gs) |->
     [condition |-> gs[k].condition, ptm |-> "global", peak_id |-> GlobalIds[k],
      peak_apex |-> gs[k].peak_apex, peak_left |-> gs[k].peak_apex - width,
      peak_right |-> gs[k].peak_apex + width]]

PtmTable(ps) ==
  [k \in 1..Len(ps) |->
     [condition |-> ps[k].condition, ptm |-> ps[k].ptm, peak_id |-> PtmIds[k],
      peak_apex |-> ps[k].peak_apex, peak_left |-> ps[k].peak_apex,
      peak_right |-> ps[k].peak_apex]]

InitPtm ==
  /\ pc = "ptm_matching"
  /\ threshold \in Cutoffs
  /\ conditions = Range(CondOrder)
  /\ \E gs \in SeqsOf(GlobalKinds, 0, MaxGlobal), ps \in SeqsOf(PtmKinds, 0, MaxPtmRows),
        width \in {0, 1} :
       /\ Len(gs) + Len(ps) >= 1
       /\ gs = <<>> => width = 0
       /\ input_df = GlobalTable(gs, width) \o PtmTable(ps)
  /\ ptms \in {known \in SUBSET AllPtms : PtmsOf(input_df) \subseteq known}
  /\ global_df = NoFrame
  /\ ptm_df_list = <<>>
  /\ ptm_i = 0
  /\ global_ptm_merge_i = NoFrame
  /\ final_global_df = Unbound
  /\ IdleAlign
  /\ output_df = NoFrame
  /\ IdleMain

\* lines 143-163
PtmSplit ==
  /\ pc = "ptm_matching"
  /\ global_df' = global_rows(input_df)
  /\ IF Len(global_rows(input_df)) = 0
     THEN /\ pc' = "ptm_returned_none"
          /\ UNCHANGED ptm_df_list
     ELSE /\ pc' = "ptm_loop"
          /\ ptm_df_list' = make_ptm_df_list(input_df, ptms)
  /\ ptm_i' = 0
  /\ UNCHANGED <<globalVars, input_df, global_ptm_merge_i, final_global_df,
                 alignVars, output_df, mainVars>>

\* lines 165-197: one pass of the loop
PtmChannel ==
  /\ pc = "ptm_loop"
  /\ ptm_i < Len(ptm_df_list)
  /\ global_ptm_merge_i' =
       with_match(merge_left(global_df, ptm_df_list[ptm_i + 1].rows), threshold)
  /\ final_global_df' =
       [bound |-> TRUE, rows |-> ptm_channel(global_df, ptm_df_list[ptm_i + 1], threshold)]
  /\ ptm_i' = ptm_i + 1
  /\ UNCHANGED <<pc, globalVars, input_df, global_df, ptm_df_list, alignVars,
                 output_df, mainVars>>

\* line 198: return final_global_df, a name no pass of the loop may have bound
PtmReturn ==
  /\ pc = "ptm_loop"
  /\ ptm_i = Len(ptm_df_list)
  /\ pc' = IF final_global_df.bound THEN "ptm_returned" ELSE "ptm_raised"
  /\ UNCHANGED <<globalVars, ptmVars, alignVars, output_df, mainVars>>

NextPtm == PtmSplit \/ PtmChannel \/ PtmReturn

SpecPtm == InitPtm /\ [][NextPtm]_vars

----------------------------------------------------------------------------
(* matching_i, lines 338-355, and condition_matching, lines 310-334. *)

\* line 355: ptm_mod_table.reset_index(drop=True).reset_index()
reset_index(rows) ==
  [r \in 1..Len(rows) |->
     [index |-> r - 1, condition |-> rows[r].condition, peak_apex |-> rows[r].peak_apex]]

\* lines 324-332: one output row per path, a list per column
track_rows(paths, df) ==
  [k \in 1..Len(paths) |->
     [index |-> fill_values(paths, df, "index")[k],
      peak_apex |-> fill_values(paths, df, "peak_apex")[k]]]

\* lines 352-355
MatchingDispatch ==
  /\ pc \in {"ptm_returned_none", "ptm_returned"}
  /\ IF pc = "ptm_returned_none"
     THEN /\ pc' = "matching_none"
          /\ UNCHANGED peak_df
     ELSE /\ pc' = "peak_alignment"
          /\ peak_df' = reset_index(final_global_df.rows)
  /\ UNCHANGED <<globalVars, ptmVars, index_combinations, peak_combinations,
                 result_paths, align_i, align_n, output_df, mainVars>>

\* lines 321-334; fill_values reads shape[1] of np.array(result_paths), which
\* an empty list does not have
ConditionMatching ==
  /\ pc = "align_returned"
  /\ IF result_paths = <<>>
     THEN /\ pc' = "matching_raised"
          /\ UNCHANGED output_df
     ELSE /\ pc' = "matching_done"
          /\ output_df' = track_rows(result_paths, peak_df)
  /\ UNCHANGED <<globalVars, ptmVars, alignVars, mainVars>>

\* matching_i as a whole: [status, rows]
matching_i(df, known, conds, t) ==
  LET m == ptm_matching(df, known, t)
      pdf == reset_index(m.rows)
      a == peak_alignment(pdf, conds, t)
  IN  IF m.status # "ok" THEN [status |-> m.status, rows |-> <<>>]
      ELSE IF a.status # "return" THEN [status |-> a.status, rows |-> <<>>]
      ELSE IF a.rp = <<>> THEN [status |-> "IndexError", rows |-> <<>>]
      ELSE [status |-> "ok", rows |-> track_rows(a.rp, pdf)]

----------------------------------------------------------------------------
(* The end-to-end scenario: one group, conditions A and B, global peaks at *)
(* apex 10 and 50 in A and at 11 and 49 in B, cutoff 5.  The rows come in  *)
(* any order; the table may hold a PTM peak, and the known ptm labels are  *)
(* those of the table with or without further channels.                    *)

ScenarioPeaks ==
  {[condition |-> "A", peak_apex |-> 10], [condition |-> "A", peak_apex |-> 50],
   [condition |-> "B", peak_apex |-> 11], [condition |-> "B", peak_apex |-> 49]}

ScenarioPtmKinds == [ptm : {"phospho"}, condition : Range(CondOrder), peak_apex : {10, 49}]

ScenarioOrders ==
  {f \in [1..Cardinality(ScenarioPeaks) -> ScenarioPeaks] :
     \A a, b \in DOMAIN f : a # b => f[a] # f[b]}

InitScenario ==
  /\ pc = "ptm_matching"
  /\ threshold = 5
  /\ conditions = Range(CondOrder)
  /\ \E gs \in ScenarioOrders, ps \in SeqsOf(ScenarioPtmKinds, 0, 1) :
       input_df = GlobalTable(gs, 1) \o PtmTable(ps)
  /\ ptms \in {known \in SUBSET AllPtms : PtmsOf(input_df) \subseteq known}
  /\ global_df = NoFrame
  /\ ptm_df_list = <<>>
  /\ ptm_i = 0
  /\ global_ptm_merge_i = NoFrame
  /\ final_global_df = Unbound
  /\ IdleAlign
  /\ output_df = NoFrame
  /\ IdleMain

NextMatching ==
  \/ PtmSplit
  \/ PtmChannel
  \/ PtmReturn
  \/ MatchingDispatch
  \/ AlignSetup
  \/ AlignStep
  \/ ConditionMatching

SpecScenario == InitScenario /\ [][NextMatching]_vars

----------------------------------------------------------------------------
(* main, lines 363-381: matching_i mapped over the group tables and the    *)
(* results concatenated.  pd.concat drops the None entries and raises      *)
(* ValueError when it is left with nothing.                                *)

RunKinds == [ptm : {"global", "phospho"}, condition : Range(CondOrder), peak_apex : {1}]

ProteinIds == <<"P1", "P2", "P3", "P4">>

RunTable(ks) ==
  [k \in 1..Len(ks) |->
     [condition |-> ks[k].condition, ptm |-> ks[k].ptm, peak_id |-> PtmIds[k],
      peak_apex |-> ks[k].peak_apex, peak_left |-> ks[k].peak_apex,
      peak_right |-> ks[k].peak_apex]]

\* lines 34-35: the labels of the whole table
table_ptms(groups) == UNION {PtmsOf(groups[g].rows) : g \in 1..Len(groups)}
table_conditions(groups) == UNION {CondsOf(groups[g].rows) : g \in 1..Len(groups)}

InitRun ==
  /\ pc = "main_map"
  /\ threshold \in Cutoffs
  /\ \E tables \in SeqsOf(SeqsOf(RunKinds, 1, 2), 1, MaxGroups) :
       match_df_list =
         [g \in 1..Len(tables) |->
            [protein_id |-> ProteinIds[g], rows |-> RunTable(tables[g])]]
  /\ ptms = table_ptms(match_df_list)
  /\ conditions = table_conditions(match_df_list)
  /\ mapped_result = <<>>
  /\ clustered_table = NoFrame
  /\ IdlePtm
  /\ IdleAlign
  /\ output_df = NoFrame

\* the rows of one group's result, with the group's identity column
tagged(protein, rows) ==
  [k \in 1..Len(rows) |->
     [protein_id |-> protein, index |-> rows[k].index, peak_apex |-> rows[k].peak_apex]]

\* line 379: matching_i on the next group table
MainMap ==
  /\ pc = "main_map"
  /\ Len(mapped_result) < Len(match_df_list)
  /\ LET g == match_df_list[Len(mapped_result) + 1]
         r == matching_i(g.rows, ptms, conditions, threshold)
     IN  IF r.status \in {"None", "ok"}
         THEN /\ mapped_result' =
                   Append(mapped_result,
                          [status |-> r.status, rows |-> tagged(g.protein_id, r.rows)])
              /\ UNCHANGED pc
         ELSE /\ pc' = "main_raised"
              /\ UNCHANGED mapped_result
  /\ UNCHANGED <<globalVars, ptmVars, alignVars, output_df, match_df_list,
                 clustered_table>>

not_none(results) == SelectSeq(results, LAMBDA r : r.status # "None")

\* line 380: pd.concat(mapped_result, ignore_index=True)
MainConcat ==
  /\ pc = "main_map"
  /\ Len(mapped_result) = Len(match_df_list)
  /\ IF not_none(mapped_result) = <<>>
     THEN /\ pc' = "main_raised"
          /\ UNCHANGED clustered_table
     ELSE /\ pc' = "main_done"
          /\ clustered_table' =
               Flatten([k \in 1..Len(not_none(mapped_result)) |->
                          not_none(mapped_result)[k].rows])
  /\ UNCHANGED <<globalVars, ptmVars, alignVars, output_df, match_df_list,
                 mapped_result>>

NextRun == MainMap \/ MainConcat

SpecRun == InitRun /\ [][NextRun]_vars

----------------------------------------------------------------------------
(* The claims. *)

Candidates(df, g, ch) ==
  SelectSeq(ptm_rows(df), LAMBDA p : p.ptm = ch /\ p.condition = g.condition)

Matches(g, p, t) == ptm_eval(MergedRow(g, p), t) = 1

\* C2: for a group with at least one global peak and any set of known
\* channel names, ptm_matching returns a table with one row per global peak
\* and one match-count column for each known non-global channel, exactly
\* that set; a known channel without rows in the group has count 0
\* everywhere.
C2_OneCountColumnPerKnownChannel ==
  pc \in {"ptm_returned", "ptm_raised"} =>
    /\ pc = "ptm_returned"
    /\ Len(final_global_df.rows) = Len(global_rows(input_df))
    /\ \A k \in 1..Len(final_global_df.rows) :
         /\ DOMAIN final_global_df.rows[k].counts = ptms \ {"global"}
         /\ \A ch \in DOMAIN final_global_df.rows[k].counts :
              ch \notin PtmsOf(input_df) => final_global_df.rows[k].counts[ch] = 0

\* C3: in the table ptm_matching returns, the match count of a global peak
\* for a reported channel is the number of that channel's peaks of the same
\* group and condition that match it, and the matched-id field is the ids of
\* exactly those peaks, joined in order (so no match gives 0 and the empty
\* string), also when global peaks of one condition share an apex.
C3_CountsAndIdsPerGlobalPeak ==
  pc = "ptm_returned" =>
    \A k \in 1..Len(final_global_df.rows) :
      LET row == final_global_df.rows[k]
          g == global_df[k]
      IN  \A ch \in DOMAIN row.counts :
            LET hits == SelectSeq(Candidates(input_df, g, ch),
                                  LAMBDA p : Matches(g, p, threshold))
            IN  /\ row.peak_id = g.peak_id
                /\ row.counts[ch] = Len(hits)
                /\ row.peak_id_ptm = [q \in 1..Len(hits) |-> hits[q].peak_id]

\* the condition of slot j of a path: the known conditions in sorted order
SlotCondition(j) == SortedSeq(CondOrder, conditions)[j]

PeaksOfCondition(c) == {r \in 1..Len(peak_df) : peak_df[r].condition = c}

\* C4: after any number of extraction passes each peak is in at most one
\* accepted path: no row index is in the same slot of two accepted paths,
\* and per condition the accepted paths hold no more filled slots than the
\* group has peaks of that condition.
C4_EachPeakInAtMostOnePath ==
  /\ \A a, b \in 1..Len(result_paths) : \A j \in 1..Len(result_paths[a]) :
       (a # b /\ result_paths[a][j] # NaN) => result_paths[a][j] # result_paths[b][j]
  /\ \A a \in 1..Len(result_paths) : \A j \in 1..Len(result_paths[a]) :
       result_paths[a][j] # NaN =>
         \E r \in PeaksOfCondition(SlotCondition(j)) : peak_df[r].index = result_paths[a][j]
  /\ \A j \in 1..Cardinality(conditions) :
       Cardinality({a \in 1..Len(result_paths) : result_paths[a][j] # NaN})
         <= Cardinality(PeaksOfCondition(SlotCondition(j)))

\* two paths accepted from a group with two peaks in one condition
C4_TwoPathsFromOneCondition ==
  /\ pc = "align_returned"
  /\ Len(result_paths) >= 2
  /\ \E j \in 1..Cardinality(conditions) :
       /\ Cardinality(PeaksOfCondition(SlotCondition(j))) >= 2
       /\ result_paths[1][j] # NaN
       /\ result_paths[2][j] # NaN

AcceptedVar(path) ==
  path_var([j \in 1..Len(path) |-> fill_cell(path[j], peak_df, "peak_apex")], threshold)

Terminal ==
  pc \in {"matching_done", "matching_none", "matching_raised", "ptm_raised", "align_raised"}

\* the scenario's result: the two tracks (10, 11) and (50, 49), best score first
ScenarioResult ==
  /\ pc = "matching_done"
  /\ Len(output_df) = 2
  /\ {output_df[k].peak_apex : k \in 1..Len(output_df)} = {<<10, 11>>, <<50, 49>>}
  /\ \A k \in 1..(Len(result_paths) - 1) :
       AcceptedVar(result_paths[k]) <= AcceptedVar(result_paths[k + 1])

\* C6: for the scenario group (A: apex 10 and 50, B: apex 11 and 49, cutoff
\* 5) processing the group yields exactly two accepted tracks, (10, 11) and
\* (50, 49), listed in non-increasing score order.
C6_ScenarioYieldsTwoTracks == Terminal => ScenarioResult

\* the same, for the runs in which a non-global channel is known
ScenarioWithKnownChannel == (Terminal /\ ptms # {"global"}) => ScenarioResult

\* the smallest number of peaks any condition of the group has
MinConditionCount ==
  LET counts == {Cardinality(PeaksOfCondition(c)) : c \in CondsOf(peak_df)}
  IN  CHOOSE m \in counts : \A q \in counts : m <= q

\* the peaks no accepted path holds, as a table of their own
Residual ==
  LET used == UNION {Range(result_paths[a]) : a \in 1..Len(result_paths)}
  IN  WithIndex(SelectSeq(peak_df, LAMBDA r : r.index \notin used))

\* the number of paths of a second run, on the residual
RerunPaths ==
  IF Residual = <<>> THEN 0
  ELSE Len(peak_alignment(Residual, conditions, threshold).rp)

C9_PoolsSynchronized ==
  pc = "align_loop" =>
    /\ Len(peak_combinations) = Len(index_combinations)
    /\ \A i \in 1..Len(index_combinations) : \A j \in 1..Len(index_combinations[i]) :
         peak_combinations[i][j] =
           (IF index_combinations[i][j] = NaN THEN NaN
            ELSE peak_df[index_combinations[i][j] + 1].peak_apex)

Accepts == pc = "align_loop" /\ Len(result_paths') = Len(result_paths) + 1

Accepted == result_paths'[Len(result_paths')]

\* C10 as stated: accepting a path removes from the candidate pool exactly
\* the paths whose index vector is the accepted one; every other path stays,
\* in order.
C10_RemovesOnlyIdenticalPaths ==
  [][Accepts =>
       index_combinations' =
         SelectSeq(index_combinations, LAMBDA row : row # Accepted)]_vars

\* C10 amended: accepting a path removes from the candidate pool exactly
\* the paths that hold one of the accepted path's peaks in the same slot
\* (the accepted path among them); every other path stays, in order.
C10_RemovesPathsSharingAPeak ==
  [][Accepts =>
       /\ Accepted \in Range(index_combinations)
       /\ index_combinations' =
            SelectSeq(index_combinations,
                      LAMBDA row : \A j \in 1..Len(row) :
                                     row[j] = NaN \/ row[j] # Accepted[j])]_vars

\* after the first acceptance the pool lost more than the accepted path and
\* still holds paths with peaks
C10_SeveralPathsRemoved ==
  /\ pc = "align_loop"
  /\ Len(result_paths) = 1
  /\ Len(index_combinations) + 1 < align_n
  /\ Len(index_combinations) >= 2
  /\ Len(index_combinations) = Len(peak_combinations)

HasGlobal(g) == Len(global_rows(g.rows)) > 0

\* C8: a group without global peaks is no error: matching_i gives None for
\* it, the run completes, and the result is the rows of the other groups,
\* those that have global peaks, unchanged and in order.
C8_GroupWithoutGlobalPeaksIsSkipped ==
  ((\E g \in 1..Len(match_df_list) : ~ HasGlobal(match_df_list[g]))
     /\ pc \in {"main_done", "main_raised"}) =>
    /\ pc = "main_done"
    /\ \A g \in 1..Len(match_df_list) :
         ~ HasGlobal(match_df_list[g]) => mapped_result[g].status = "None"
    /\ LET others == SelectSeq(match_df_list, HasGlobal)
       IN  clustered_table =
             Flatten([k \in 1..Len(others) |->
                        tagged(others[k].protein_id,
                               matching_i(others[k].rows, ptms, conditions, threshold).rows)])

\* the same, for the runs in which some group has a global peak
GroupSkippedBesideOthers ==
  (\E g \in 1..Len(match_df_list) : HasGlobal(match_df_list[g])) =>
    C8_GroupWithoutGlobalPeaksIsSkipped

----------------------------------------------------------------------------
(* Completeness of the greedy extraction, lines 283-308. *)

SlotOf(c) == CHOOSE j \in 1..Cardinality(conditions) : SlotCondition(j) = c

\* the accepted paths that hold peak r of peak_df in the slot of its condition
PathsHolding(r) ==
  {a \in 1..Len(result_paths) :
     result_paths[a][SlotOf(peak_df[r].condition)] = peak_df[r].index}

HasAllMissingRow(pool) == \E i \in 1..Len(pool) : all_nan(pool[i])

EveryPeakInExactlyOnePath ==
  \A r \in 1..Len(peak_df) : Cardinality(PathsHolding(r)) = 1

\* C11: for every group and cutoff the all-missing path stays in the
\* candidate pool (index and apex pool alike) through every pass of the
\* extraction, and the extraction does not stop while a real peak is
\* unconsumed: when peak_alignment returns, every peak of the group is in
\* exactly one accepted path.
C11_StopsOnlyWhenAllPeaksConsumed ==
  /\ pc = "align_loop" =>
       /\ HasAllMissingRow(index_combinations)
       /\ HasAllMissingRow(peak_combinations)
  /\ pc = "align_returned" => EveryPeakInExactlyOnePath

\* no two peaks of one condition have the same apex
ApexesDistinctPerCondition ==
  \A r, q \in 1..Len(peak_df) :
    (r # q /\ peak_df[r].condition = peak_df[q].condition)
      => peak_df[r].peak_apex # peak_df[q].peak_apex

\* the extraction is complete for the groups whose peaks of a condition
\* have distinct apexes
CompleteWhenApexesDistinct ==
  ApexesDistinctPerCondition => C11_StopsOnlyWhenAllPeaksConsumed

\* the all-missing path is never removed, whatever the apexes
AllMissingPathStays ==
  pc = "align_loop" =>
    /\ HasAllMissingRow(index_combinations)
    /\ HasAllMissingRow(peak_combinations)

\* a group with distinct apexes returned with a partial path and all peaks used
CompleteWithPartialPaths ==
  /\ pc = "align_returned"
  /\ ApexesDistinctPerCondition
  /\ Len(peak_df) >= 3
  /\ \E a \in 1..Len(result_paths) : \E j \in 1..Len(result_paths[a]) :
       result_paths[a][j] = NaN
  /\ EveryPeakInExactlyOnePath

====
